---- MODULE Spec2Model ----
(***************************************************************************)
(* State-machine model of the Raspberry Pi GPIO controller daemon:         *)
(*   GPIOService   (src/src/gpio/gpio.service.ts)                          *)
(*   UserService   (src/src/user/user.service.ts, second definition)       *)
(*   ApiService    (src/unnamed/part_014)                                  *)
(*   AppService    (src/src/app.service.ts)                                *)
(* Node.js runs every handler on one event loop: a step of the model is    *)
(* the code that runs between two awaits.  Time is counted in milliseconds *)
(* on the timers that setTimeout has armed.                                *)
(***************************************************************************)
EXTENDS Integers, Sequences, FiniteSets, TLC

VARIABLES
    gpioAvailable,   \* GPIOService.gpioAvailable
    switches,        \* GPIOService.switches: the pins of the claimed input handles
    bulbs,           \* GPIOService.bulbs: the pins of the claimed output handles
    isMonitoring,    \* GPIOService.isMonitoring
    watchers,        \* the registered edge callbacks: the pin and the index each closed over
    exported,        \* pins the kernel currently has exported for this process
    level,           \* output level of every bulb pin
    boot,            \* position of AppService.onModuleInit
    closed,          \* onModuleDestroy has run
    users,           \* the rows of table "users", in id order
    upserts,         \* prisma upserts in flight
    presses,         \* every handleSwitchPress call so far, with its two legs
    run,             \* number of the current run of the process over the database
    fetched,         \* the fetchUsers requests of this run, each with what it
                     \* resolved to or that it was rejected
    env,             \* process.env.DEVICE_ID: <<>> while unset, else <<value>>
    init,            \* the initialize() call of this run: the file system it
                     \* found, what the probe gave, the pin operations it
                     \* issued, whether its catch block logged a failure, and
                     \* how the call ended
    cleanups,        \* the cleanup() calls of this run: the pin operations of each
    warned           \* startMonitoring has logged "GPIO monitoring already active"

vars == <<gpioAvailable, switches, bulbs, isMonitoring, watchers, exported, level,
          boot, closed, users, upserts, presses, run, fetched, env, init, cleanups, warned>>

----------------------------------------------------------------------------
(* Bounds of the model *)

\* handleSwitchPress calls per run
MaxPresses == 2
\* runs of the process (boots) over one database
MaxRuns == 2
\* external user ids the remote API knows
MaxUsers == 2
\* cleanup() calls per run
MaxCleanups == 3

----------------------------------------------------------------------------
(* Program constants *)

SWITCH_PINS == <<2, 3, 4, 17, 27>>
BULB_PINS == <<18, 23, 24, 25, 8>>
\* a hold of half the length
HoldHalved == 2000 \div 2
\* the bulb hold: setTimeout(resolve, 2000)
HOLD_MS == 2000
\* the simulated write latency: setTimeout(resolve, 100)
SIM_DELAY_MS == 100
\* HttpStatus.UNAUTHORIZED
UNAUTHORIZED == 401

\* JavaScript's undefined, for a pin, an index or a status
Undefined == 0 - 1

\* the granularity at which the model lets time pass
TickMs == HOLD_MS \div 2

Range(s) == {s[k] : k \in DOMAIN s}

\* arr[i] of a JavaScript array, i counted from 0: undefined outside the array
ArrGet(arr, i) == IF (i + 1) \in DOMAIN arr THEN arr[i + 1] ELSE Undefined

----------------------------------------------------------------------------
(* The remote API's users and the local table *)

UserIds == 1 .. MaxUsers

\* an ApiUser as fetchUsers returns it; the API hands out a fresh token and
\* desk number (ver) on every fetch
ApiUser(n, ver) ==
    [id |-> n, accessToken |-> <<n, ver>>,
     location |-> [id |-> n, name |-> n, number |-> ver]]

\* JSON.stringify / JSON.parse of a UserLocation: the text lists the fields in
\* the order the object holds them
JSONstringify(loc) == <<"id", loc.id, "name", loc.name, "number", loc.number>>
JSONparse(text) == [id |-> text[2], name |-> text[4], number |-> text[6]]

\* an upsert whose update branch writes the switchInput as well
PrismaUpsertRebinds(rows, apiUser, switchInput) ==
    IF \E k \in DOMAIN rows : rows[k].userId = apiUser.id
    THEN LET k == CHOOSE j \in DOMAIN rows : rows[j].userId = apiUser.id
         IN  [rows EXCEPT ![k].accessToken = apiUser.accessToken,
                          ![k].location = JSONstringify(apiUser.location),
                          ![k].switchInput = switchInput]
    ELSE Append(rows, [id |-> Len(rows) + 1,
                       userId |-> apiUser.id,
                       accessToken |-> apiUser.accessToken,
                       location |-> JSONstringify(apiUser.location),
                       switchInput |-> switchInput])

\* prisma.user.upsert({where: {userId}, update: {accessToken, location},
\*                     create: {accessToken, location, switchInput, userId}})
PrismaUpsert(rows, apiUser, switchInput) ==
    IF \E k \in DOMAIN rows : rows[k].userId = apiUser.id
    THEN LET k == CHOOSE j \in DOMAIN rows : rows[j].userId = apiUser.id
         IN  [rows EXCEPT ![k].accessToken = apiUser.accessToken,
                          ![k].location = JSONstringify(apiUser.location)]
    ELSE Append(rows, [id |-> Len(rows) + 1,
                       userId |-> apiUser.id,
                       accessToken |-> apiUser.accessToken,
                       location |-> JSONstringify(apiUser.location),
                       switchInput |-> switchInput])

\* prisma.user.findFirst({where: {switchInput}}): the first row in id order
PrismaFindFirst(rows, switchInput) ==
    LET hits == {k \in DOMAIN rows : rows[k].switchInput = switchInput}
    IN  IF hits = {} THEN <<>>
        ELSE <<rows[CHOOSE k \in hits : \A j \in hits : k <= j]>>

\* UserService.getUser: the row with its location parsed, or nothing
GetUser(rows, switchIndex) ==
    LET found == PrismaFindFirst(rows, switchIndex)
    IN  IF found = <<>> THEN <<>>
        ELSE <<[found[1] EXCEPT !.location = JSONparse(found[1].location)]>>

\* the upserts fetchAndStoreUsers starts for a fetched list: the i-th user with
\* SWITCH_PINS[i]; the map callback is async and its promises are dropped
StartedUpserts(apiUsers) ==
    {[user |-> apiUsers[k], switchInput |-> ArrGet(SWITCH_PINS, k - 1), pos |-> k,
      rejected |-> FALSE] : k \in DOMAIN apiUsers}

\* a client that takes a create without a switchInput
StorableAlways(u) == TRUE

\* an upsert without a switchInput is refused by the client before it reaches
\* the table (the column is required): its promise rejects
Storable(u) == u.switchInput # Undefined

----------------------------------------------------------------------------
(* Construction and start-up: AppService.onModuleInit *)

BulbPinSet == Range(BULB_PINS)
SwitchPinSet == Range(SWITCH_PINS)

\* values of DEVICE_ID the process is started with: not set, or a device name
DeviceIdEnv == {<<>>, <<"raspberry-pi-007">>}

\* process.env.DEVICE_ID || ''
DeviceIdOrEmpty == IF env = <<>> THEN "" ELSE env[1]

\* ApiService.deviceId, which fetchUsers sends as the branch of the device
ApiServiceDeviceId == DeviceIdOrEmpty

\* the pin the probe exports for its test: const testPin = 26
TEST_PIN == 26

\* how a call ended: with a value, or by raising
Returned(value) == [threw |-> FALSE, value |-> value]
Threw == [threw |-> TRUE, value |-> FALSE]

\* The file system as the probe and initializeHardware find it is a record.
\* exportedPins: the pins with a /sys/class/gpio/gpioN directory left by an
\* earlier process; stuck: the pins whose unexport write fails; exportOk:
\* whether the export write of the test pin succeeds; pinCreated: whether the
\* directory of the test pin is there after it.

\* a Raspberry Pi with its GPIO in working order and no pin left exported
PiHost ==
    [dockerenv |-> FALSE, cgroup |-> "other", hasGpioExport |-> TRUE,
     hasGpioMem |-> TRUE, hasDeviceTree |-> TRUE, model |-> "pi",
     exportWritable |-> TRUE, exportOk |-> TRUE, pinCreated |-> TRUE,
     exportedPins |-> {}, stuck |-> {}]

\* a development machine: no GPIO files at all
DevHost ==
    [dockerenv |-> FALSE, cgroup |-> "other", hasGpioExport |-> FALSE,
     hasGpioMem |-> FALSE, hasDeviceTree |-> FALSE, model |-> "unreadable",
     exportWritable |-> FALSE, exportOk |-> FALSE, pinCreated |-> FALSE,
     exportedPins |-> {}, stuck |-> {}]

\* the hosts the service is started on where the probe is not the subject
Hosts == {PiHost, DevHost}

\* the catch block of isRunningInDocker
IsRunningInDockerCatch == FALSE

\* GPIOService.isRunningInDocker
isRunningInDocker(fs) ==
    IF fs.dockerenv THEN TRUE
    ELSE IF fs.cgroup = "unreadable" THEN IsRunningInDockerCatch
    ELSE fs.cgroup = "docker"

\* a catch block that passes the error of the test export on
TestExportCatchRethrows == Threw

\* catch (testError): warn and return false
TestExportCatch == Returned(FALSE)

\* catch (writeError): warn and return false
ExportNotWritableCatch == Returned(FALSE)

\* the export/unexport round trip of the probe on the test pin
TestExport(fs) ==
    IF TEST_PIN \in fs.exportedPins /\ TEST_PIN \in fs.stuck THEN TestExportCatch
    ELSE IF ~fs.exportOk THEN TestExportCatch
    ELSE IF fs.pinCreated /\ TEST_PIN \in fs.stuck THEN TestExportCatch
    ELSE Returned(fs.pinCreated)

\* GPIOService.checkGpioAvailability
checkGpioAvailability(fs) ==
    IF ~fs.hasGpioExport \/ ~fs.hasGpioMem THEN Returned(FALSE)
    ELSE IF /\ fs.hasDeviceTree
            /\ fs.model = "other"
            /\ ~isRunningInDocker(fs) THEN Returned(FALSE)
    ELSE IF ~fs.exportWritable THEN ExportNotWritableCatch
    ELSE TestExport(fs)

\* the initialize() call has not been made
NotInitialized ==
    [failed |-> FALSE, out |-> "pending", fs |-> DevHost, probe |-> Returned(FALSE),
     ops |-> <<>>]

\* the state after the services are constructed, in a process started with
\* DEVICE_ID as e
Constructed(e) ==
    /\ env = e
    /\ gpioAvailable = FALSE
    /\ switches = <<>>
    /\ bulbs = <<>>
    /\ isMonitoring = FALSE
    /\ watchers = {}
    /\ exported = {}
    /\ level = [pin \in BulbPinSet |-> 0]
    /\ boot = "constructed"
    /\ closed = FALSE
    /\ users = <<>>
    /\ upserts = {}
    /\ presses = <<>>
    /\ run = 1
    /\ fetched = <<>>
    /\ init = NotInitialized
    /\ cleanups = <<>>
    /\ warned = FALSE

\* the process started without DEVICE_ID
Init == Constructed(<<>>)

\* the process runs: it has neither exited nor been terminated
Alive == boot \notin {"exited", "crashed"}

\* the pin claims of initializeHardware, in the order it makes them: the
\* switch pins, then the bulb pins
ClaimOrder == SWITCH_PINS \o BULB_PINS

\* places at which a claim of initializeHardware is taken to fail (0: none)
InitFailPoints == {0, Len(SWITCH_PINS) + 2}

\* a pin operation of initializeHardware: an unexport write, a claim
\* (new Gpio), or the write of LOW to a claimed bulb pin
Op(kind, pin, ok) == [kind |-> kind, pin |-> pin, ok |-> ok]

\* GPIOService.ensurePinsUnexported: over the switch pins and then the bulb
\* pins, an unexport write for each pin found exported; a write that fails
\* is logged and the loop goes on
ensurePinsUnexported(fs) ==
    LET found(pin) == pin \in fs.exportedPins
        pins == SelectSeq(ClaimOrder, found)
    IN  [k \in DOMAIN pins |-> Op("unexport", pins[k], pins[k] \notin fs.stuck)]

\* the second loop of initializeHardware from bulb i on: claim, write LOW,
\* push; the claim numbered failAt throws
RECURSIVE ClaimBulbs(_, _)
ClaimBulbs(i, failAt) ==
    IF i > Len(BULB_PINS) THEN <<>>
    ELSE IF Len(SWITCH_PINS) + i = failAt THEN <<Op("claim", BULB_PINS[i], FALSE)>>
    ELSE <<Op("claim", BULB_PINS[i], TRUE), Op("write", BULB_PINS[i], TRUE)>>
           \o ClaimBulbs(i + 1, failAt)

\* the first loop of initializeHardware from switch i on, and then the second
RECURSIVE ClaimSwitches(_, _)
ClaimSwitches(i, failAt) ==
    IF i > Len(SWITCH_PINS) THEN ClaimBulbs(1, failAt)
    ELSE IF i = failAt THEN <<Op("claim", SWITCH_PINS[i], FALSE)>>
    ELSE <<Op("claim", SWITCH_PINS[i], TRUE)>> \o ClaimSwitches(i + 1, failAt)

\* an initializeHardware that clears the stale pins after it has claimed
initializeHardwareUnexportsLast(fs, failAt) ==
    ClaimSwitches(1, failAt) \o ensurePinsUnexported(fs)

\* the pin operations of initializeHardware, in the order it issues them
initializeHardware(fs, failAt) ==
    ensurePinsUnexported(fs) \o ClaimSwitches(1, failAt)

\* the pin operations of one cleanup() call
PinOps(unwatched, written, unexported) ==
    [unwatched |-> unwatched, written |-> written, unexported |-> unexported]

\* a hardware cleanup that leaves the handle arrays as they are
CleanupAvailableKeepsHandles ==
    /\ watchers' = {w \in watchers : w.pin \notin Range(switches)}
    /\ exported' = exported \ (Range(switches) \cup Range(bulbs))
    /\ level' = [pin \in BulbPinSet |->
                    IF pin \in Range(bulbs) /\ pin \in exported THEN 0 ELSE level[pin]]
    /\ cleanups' = Append(cleanups, PinOps(Range(switches), Range(bulbs),
                                           Range(switches) \cup Range(bulbs)))
    /\ UNCHANGED <<switches, bulbs>>

\* GPIOService.cleanup, the hardware part: unwatchAll and unexport on every
\* switch handle, writeSync(0) and unexport on every bulb handle, then both
\* arrays are emptied
CleanupAvailable ==
    /\ watchers' = {w \in watchers : w.pin \notin Range(switches)}
    /\ exported' = exported \ (Range(switches) \cup Range(bulbs))
    /\ level' = [pin \in BulbPinSet |->
                    IF pin \in Range(bulbs) /\ pin \in exported THEN 0 ELSE level[pin]]
    /\ cleanups' = Append(cleanups, PinOps(Range(switches), Range(bulbs),
                                           Range(switches) \cup Range(bulbs)))
    /\ switches' = <<>>
    /\ bulbs' = <<>>

\* a cleanup that returns at its simulation check before it clears the flag
CleanupLeavesMonitoring ==
    IF ~gpioAvailable'
    THEN /\ cleanups' = Append(cleanups, PinOps({}, {}, {}))
         /\ UNCHANGED <<isMonitoring, switches, bulbs, watchers, exported, level>>
    ELSE /\ isMonitoring' = FALSE
         /\ CleanupAvailable

cleanup ==
    /\ isMonitoring' = FALSE
    /\ IF ~gpioAvailable'
       THEN /\ cleanups' = Append(cleanups, PinOps({}, {}, {}))
            /\ UNCHANGED <<switches, bulbs, watchers, exported, level>>
       ELSE CleanupAvailable

\* a catch block that leaves the controller in hardware mode
InitializeFallbackKeepsHardware == TRUE

\* this.gpioAvailable = false in the catch block of initialize
InitializeFallback == FALSE

\* a catch block that reports the failure to the caller of initialize
InitializeCatchRethrows == "raised"

\* the catch block of initialize: it logs, falls back to simulation and cleans
\* up; nothing is thrown on to the caller
InitializeCatch == "returned"

\* GPIOService.initialize with initializeHardware, on a host whose file system
\* is fs; failAt is the claim that throws (0: none).  Nothing else runs in the
\* process before onModuleInit is over, so the whole call is one step.
Initialize(fs, failAt) ==
    LET res == checkGpioAvailability(fs)
        probe == ~res.threw /\ res.value
    IN
    /\ boot = "constructed"
    /\ init' = IF res.threw \/ (probe /\ failAt # 0)
               THEN [failed |-> TRUE, out |-> InitializeCatch, fs |-> fs, probe |-> res,
                     ops |-> IF probe THEN initializeHardware(fs, failAt) ELSE <<>>]
               ELSE [failed |-> FALSE, out |-> "returned", fs |-> fs, probe |-> res,
                     ops |-> IF probe THEN initializeHardware(fs, failAt) ELSE <<>>]
    \* onModuleInit rethrows what initialize raises, and bootstrap exits
    /\ boot' = IF init'.out = "raised" THEN "exited" ELSE "initialized"
    /\ IF res.threw
       THEN \* the catch block after a probe that raised
            /\ gpioAvailable' = InitializeFallback
            /\ isMonitoring' = FALSE
            /\ cleanups' = Append(cleanups, PinOps({}, {}, {}))
            /\ UNCHANGED <<switches, bulbs, watchers, exported, level>>
       ELSE IF ~probe
       THEN /\ gpioAvailable' = FALSE
            /\ UNCHANGED <<switches, bulbs, isMonitoring, watchers, exported, level,
                           cleanups>>
       ELSE IF failAt = 0
       THEN /\ gpioAvailable' = TRUE
            /\ switches' = switches \o SWITCH_PINS
            /\ bulbs' = bulbs \o BULB_PINS
            /\ exported' = exported \cup SwitchPinSet \cup BulbPinSet
            /\ level' = [pin \in BulbPinSet |-> 0]
            /\ UNCHANGED <<isMonitoring, watchers, cleanups>>
       ELSE LET claimed == SubSeq(ClaimOrder, 1, failAt - 1)
                nsw == IF failAt - 1 < Len(SWITCH_PINS) THEN failAt - 1
                       ELSE Len(SWITCH_PINS)
            IN  \* the catch block: gpioAvailable = false, then cleanup(), which
                \* returns at its simulation-mode check
                /\ gpioAvailable' = InitializeFallback
                /\ switches' = switches \o SubSeq(claimed, 1, nsw)
                /\ bulbs' = bulbs \o SubSeq(claimed, nsw + 1, Len(claimed))
                /\ exported' = exported \cup Range(claimed)
                /\ level' = [pin \in BulbPinSet |->
                                IF pin \in Range(claimed) THEN 0 ELSE level[pin]]
                /\ isMonitoring' = FALSE
                /\ cleanups' = Append(cleanups, PinOps({}, {}, {}))
                /\ UNCHANGED watchers
    /\ UNCHANGED <<closed, users, upserts, presses, run, fetched, env, warned>>

\* gpio.watch(callback) on every switch handle: each callback closes over its
\* index; n counts the callbacks registered on the pin
WatchAll ==
    watchers \cup
      {[pin |-> switches[k], index |-> k - 1,
        n |-> Cardinality({w \in watchers : w.pin = switches[k]}) + 1] :
          k \in DOMAIN switches}

\* a startMonitoring that warns and then goes on to register its callbacks
startMonitoringUnguarded ==
    /\ warned' = (warned \/ isMonitoring)
    /\ isMonitoring' = TRUE
    /\ watchers' = IF gpioAvailable THEN WatchAll ELSE watchers

\* GPIOService.startMonitoring
startMonitoring ==
    IF isMonitoring
    THEN /\ warned' = TRUE
         /\ UNCHANGED <<isMonitoring, watchers>>
    ELSE /\ isMonitoring' = TRUE
         /\ watchers' = IF gpioAvailable THEN WatchAll ELSE watchers
         /\ UNCHANGED warned

\* a call of the public method startMonitoring besides the one of start-up
StartMonitoringCall ==
    /\ Alive
    /\ startMonitoring
    /\ UNCHANGED <<gpioAvailable, switches, bulbs, exported, level, boot, closed,
                   users, upserts, presses, run, fetched, env, init, cleanups>>

\* what fetchUsers can resolve to: an object with a users list (ok), or an
\* object of another shape: one without users, or one whose users are not held
\* in a list
Response(ok, apiUsers) == [ok |-> ok, users |-> apiUsers, rejected |-> FALSE]

\* a fetchUsers request that was rejected: no response, or a status other than
\* 201
FetchRejected == [ok |-> FALSE, users |-> <<>>, rejected |-> TRUE]

\* a sync that upserts whatever users the response holds
fetchAndStoreUsersUnchecked(resp) ==
    upserts' = upserts \cup StartedUpserts(resp.users)

\* UserService.fetchAndStoreUsers from the moment fetchUsers resolves: the
\* shape check, then one upsert started per user, none awaited
fetchAndStoreUsers(resp) ==
    upserts' = IF resp.ok
               THEN upserts \cup StartedUpserts(resp.users)
               ELSE upserts

\* onModuleInit after initialize: fetchUsers resolves, fetchAndStoreUsers
\* returns, and startMonitoring is called in the same turn of the event loop
BootSync(resp) ==
    /\ boot = "initialized"
    /\ fetchAndStoreUsers(resp)
    /\ startMonitoring
    /\ boot' = "ready"
    /\ fetched' = Append(fetched, resp)
    /\ UNCHANGED <<gpioAvailable, switches, bulbs, exported, level, closed, users,
                   presses, run, env, init, cleanups>>

\* a catch that logs the failure and returns: onModuleInit goes on to
\* startMonitoring
fetchAndStoreUsersCatchSwallows ==
    /\ startMonitoring
    /\ boot' = "ready"

\* the catch of fetchAndStoreUsers logs and rethrows, the one of onModuleInit
\* does the same, and bootstrap logs and calls process.exit(1): the statements
\* of onModuleInit after the sync are not run
fetchAndStoreUsersCatch ==
    /\ boot' = "exited"
    /\ UNCHANGED <<isMonitoring, watchers, warned>>

\* fetchUsers rejects during start-up
BootSyncFails ==
    /\ boot = "initialized"
    /\ fetchAndStoreUsersCatch
    /\ fetched' = Append(fetched, FetchRejected)
    /\ UNCHANGED <<gpioAvailable, switches, bulbs, exported, level, closed, users,
                   upserts, presses, run, env, init, cleanups>>

\* one upsert that was started reaches the table
UpsertCommit(u) ==
    /\ Alive
    /\ u \in upserts
    /\ ~u.rejected
    /\ Storable(u)
    /\ users' = PrismaUpsert(users, u.user, u.switchInput)
    /\ upserts' = upserts \ {u}
    /\ UNCHANGED <<gpioAvailable, switches, bulbs, isMonitoring, watchers, exported,
                   level, boot, closed, presses, run, fetched, env, init, cleanups, warned>>

\* one upsert that was started is refused: upsertUser rejects, and so does the
\* promise of the map callback that awaited it; fetchAndStoreUsers dropped that
\* promise, so the rejection is an unhandled one, which terminates the process
UpsertRejects(u) ==
    /\ Alive
    /\ u \in upserts
    /\ ~u.rejected
    /\ ~Storable(u)
    /\ upserts' = (upserts \ {u}) \cup {[u EXCEPT !.rejected = TRUE]}
    /\ boot' = "crashed"
    /\ UNCHANGED <<gpioAvailable, switches, bulbs, isMonitoring, watchers, exported,
                   level, closed, users, presses, run, fetched, env, init, cleanups, warned>>

\* a cleanup that puts the controller into simulation mode
GpioAvailableClearedByCleanup == FALSE

\* the flag after a cleanup() call: cleanup reads gpioAvailable and does not
\* assign it
GpioAvailableAfterCleanup == gpioAvailable

\* GPIOService.onModuleDestroy, whenever it is called
onModuleDestroy ==
    /\ Alive
    /\ Len(cleanups) < MaxCleanups
    /\ closed' = TRUE
    /\ gpioAvailable' = GpioAvailableAfterCleanup
    /\ cleanup
    /\ UNCHANGED <<boot, users, upserts, presses, run, fetched, env, init, warned>>

\* the application is closed, once, after start-up
Shutdown ==
    /\ boot = "ready"
    /\ ~closed
    /\ onModuleDestroy

\* the process ends and is started again over the same database; upserts that
\* had not reached the table are lost with it
Restart ==
    /\ boot \in {"ready", "exited", "crashed"}
    /\ run < MaxRuns
    /\ run' = run + 1
    /\ gpioAvailable' = FALSE
    /\ switches' = <<>>
    /\ bulbs' = <<>>
    /\ isMonitoring' = FALSE
    /\ watchers' = {}
    /\ exported' = {}
    /\ level' = [pin \in BulbPinSet |-> 0]
    /\ boot' = "constructed"
    /\ closed' = FALSE
    /\ upserts' = {}
    /\ presses' = <<>>
    /\ fetched' = <<>>
    /\ init' = NotInitialized
    /\ cleanups' = <<>>
    /\ warned' = FALSE
    /\ UNCHANGED <<users, env>>

\* a status whose mode and counts are taken from the configured pins and the
\* handles that are left
getStatusFromHandles ==
    [gpioAvailable |-> gpioAvailable,
     mode |-> IF gpioAvailable /\ bulbs # <<>> THEN "hardware" ELSE "simulation",
     isMonitoring |-> isMonitoring,
     switchPins |-> SWITCH_PINS,
     bulbPins |-> BULB_PINS,
     switchCount |-> Len(SWITCH_PINS),
     bulbCount |-> Len(BULB_PINS)]

\* GPIOService.getStatus, without the clock and the file-system probes
getStatus ==
    [gpioAvailable |-> gpioAvailable,
     mode |-> IF gpioAvailable THEN "hardware" ELSE "simulation",
     isMonitoring |-> isMonitoring,
     switchPins |-> SWITCH_PINS,
     bulbPins |-> BULB_PINS,
     switchCount |-> Len(switches),
     bulbCount |-> Len(bulbs)]

----------------------------------------------------------------------------
(* GPIOService.handleSwitchPress and its two legs *)

\* switch indices the test endpoint and the edge callbacks are exercised with:
\* the two ends of the valid range and their invalid neighbours
PressInputs == {0, 1, Len(SWITCH_PINS), Len(SWITCH_PINS) + 1}

\* what the remote API does with a switch event: an HTTP status, or no
\* response at all (timeout, network error)
ApiOutcomes == {200, UNAUTHORIZED, 500, Undefined}

\* axios resolves for a 2xx status and rejects for everything else
AxiosResolves(status) == status >= 200 /\ status < 300

\* a guard that lets index 0 through
InvalidSwitchIndexFromZero(switchIndex) ==
    switchIndex < 0 \/ switchIndex > Len(SWITCH_PINS)

\* the guard of handleSwitchPress
InvalidSwitchIndex(switchIndex) ==
    switchIndex <= 0 \/ switchIndex > Len(SWITCH_PINS)

\* a log line or pin write of a pulse
Step(kind, phys, bulbIndex, pin, ok, held) ==
    [kind |-> kind, phys |-> phys, bulb |-> bulbIndex + 1, pin |-> pin, ok |-> ok,
     held |-> held]

\* a branchId that falls back to a device name instead of ''
AppInfoDeviceId == IF env = <<>> THEN "raspberry-pi-001" ELSE env[1]

\* branchId: process.env.DEVICE_ID || ''
PayloadBranchId == DeviceIdOrEmpty

\* the switch event sendApiRequest builds for a user
Payload(user) ==
    [status |-> "calling", branchId |-> PayloadBranchId, isMultiService |-> FALSE,
     location |-> user.location]

\* the handleSwitchPress call has raised
Raised(rec) == rec.out \in {"BadRequest", "Unauthorized", "rethrown"}

\* who awaits the promise of a handleSwitchPress call: the HTTP layer awaits the
\* one testSwitch returns and answers with the error; the edge callback drops
\* the one it gets, so that a rejection of it is an unhandled rejection, which
\* terminates the process
UnhandledRejection(rec) == rec.src = "edge" /\ Raised(rec)

\* where the process is after the presses have moved on to recs
ProcessAfter(recs) ==
    IF \E p \in DOMAIN recs : UnhandledRejection(recs[p]) THEN "crashed" ELSE boot

NewPress(switchIndex, src) ==
    [idx |-> switchIndex, src |-> src,
     bulbIndex |-> Undefined, handle |-> Undefined,
     bpc |-> "none", timer |-> 0, bres |-> "none", steps |-> <<>>,
     key |-> Undefined, npc |-> "none", nres |-> "none", nerr |-> "none",
     nstatus |-> Undefined, lookups |-> 0, sent |-> <<>>,
     answered |-> FALSE, apiStatus |-> Undefined,
     out |-> "pending", ret |-> <<>>]

\* the handle one place further on
BulbHandleOffByOne(bulbIndex) == ArrGet(bulbs, bulbIndex + 1)

\* const bulb = this.bulbs[bulbIndex]
BulbHandle(bulbIndex) == ArrGet(bulbs, bulbIndex)

\* a turnOnBulb that waits while another pulse of the same bulb is in flight
TurnOnBulbBeginQueued(rec, bulbIndex) ==
    IF \E q \in DOMAIN presses :
          presses[q].bulbIndex = bulbIndex /\ presses[q].bpc \notin {"none", "done"}
    THEN [rec EXCEPT !.bulbIndex = bulbIndex, !.bpc = "queued"]
    ELSE IF ~gpioAvailable
    THEN [rec EXCEPT !.bulbIndex = bulbIndex, !.bpc = "simDelay", !.timer = 0,
                     !.steps = <<Step("on", FALSE, bulbIndex, Undefined, TRUE, 0)>>]
    ELSE IF BulbHandle(bulbIndex) = Undefined
    THEN [rec EXCEPT !.bulbIndex = bulbIndex, !.bpc = "done", !.bres = "notInit"]
    ELSE [rec EXCEPT !.bulbIndex = bulbIndex, !.bpc = "on",
                     !.handle = BulbHandle(bulbIndex)]

\* turnOnBulb up to its first await
TurnOnBulbBegin(rec, bulbIndex) ==
    IF ~gpioAvailable
    THEN [rec EXCEPT !.bulbIndex = bulbIndex, !.bpc = "simDelay", !.timer = 0,
                     !.steps = <<Step("on", FALSE, bulbIndex, Undefined, TRUE, 0)>>]
    ELSE IF BulbHandle(bulbIndex) = Undefined
    THEN [rec EXCEPT !.bulbIndex = bulbIndex, !.bpc = "done", !.bres = "notInit"]
    ELSE [rec EXCEPT !.bulbIndex = bulbIndex, !.bpc = "on",
                     !.handle = BulbHandle(bulbIndex)]

\* a notification leg that simulation mode skips
SendApiRequestBeginHardwareOnly(rec, switchPin) ==
    IF gpioAvailable
    THEN [rec EXCEPT !.key = switchPin, !.npc = "lookup", !.lookups = @ + 1]
    ELSE [rec EXCEPT !.key = switchPin, !.npc = "done", !.nres = "noUser"]

\* sendApiRequest up to its first await: getUser is called
SendApiRequestBegin(rec, switchPin) ==
    [rec EXCEPT !.key = switchPin, !.npc = "lookup", !.lookups = @ + 1]

\* a catch block that rethrows
TurnOnBulbRethrows(rec) == [rec EXCEPT !.bpc = "done", !.bres = "thrown"]

\* the catch block of turnOnBulb: the error becomes the leg's value
TurnOnBulbCatch(rec) == [rec EXCEPT !.bpc = "done", !.bres = "error"]

\* a missing user raised as an error instead of returned
SendApiRequestNoUserThrows(rec) ==
    [rec EXCEPT !.npc = "done", !.nres = "rejected", !.nerr = "nouser"]

\* sendApiRequest when getUser found nobody: log and return {error}
SendApiRequestNoUser(rec) == [rec EXCEPT !.npc = "done", !.nres = "noUser"]

\* a rejection that also abandons the pulse of the same press
SendApiRequestCatchCancels(rec, kind, status) ==
    [rec EXCEPT !.npc = "done", !.nres = "rejected", !.nerr = kind, !.nstatus = status,
                !.bpc = "done"]

\* a catch block that sends the switch event once more before it gives up
SendApiRequestCatchRetries(rec, kind, status) ==
    IF kind = "api" /\ Len(rec.sent) < 2
    THEN [rec EXCEPT !.npc = "send", !.sent = Append(@, rec.sent[1])]
    ELSE [rec EXCEPT !.npc = "done", !.nres = "rejected", !.nerr = kind,
                     !.nstatus = status]

\* the catch block of sendApiRequest: log and rethrow
SendApiRequestCatch(rec, kind, status) ==
    [rec EXCEPT !.npc = "done", !.nres = "rejected", !.nerr = kind, !.nstatus = status]

BulbLeg(rec) ==
    IF rec.bpc # "done" THEN "pending"
    ELSE IF rec.bres = "thrown" THEN "rejected" ELSE "fulfilled"

NotifyLeg(rec) ==
    IF rec.npc # "done" THEN "pending"
    ELSE IF rec.nres = "rejected" THEN "rejected" ELSE "fulfilled"

\* Promise.all of the two legs: rejected as soon as one leg is, fulfilled once
\* both are
PromiseAll(bulbLeg, notifyLeg) ==
    IF bulbLeg = "rejected" \/ notifyLeg = "rejected" THEN "rejected"
    ELSE IF bulbLeg = "fulfilled" /\ notifyLeg = "fulfilled" THEN "fulfilled"
    ELSE "pending"

\* a catch block that looks for 403 instead of 401
HandleSwitchPressCatchForbidden(status) ==
    IF status = 403 THEN "Unauthorized" ELSE "rethrown"

\* the catch block of handleSwitchPress
HandleSwitchPressCatch(status) ==
    IF status = UNAUTHORIZED THEN "Unauthorized" ELSE "rethrown"

\* handleSwitchPress after its await: return both values, or raise
Settle(rec) ==
    IF rec.out # "pending" THEN rec
    ELSE LET all == PromiseAll(BulbLeg(rec), NotifyLeg(rec))
         IN  IF all = "fulfilled"
             THEN [rec EXCEPT !.out = "returned",
                              !.ret = <<[turnOnBulb |-> rec.bres,
                                         sendApiRequest |-> rec.nres]>>]
             ELSE IF all = "rejected"
             THEN [rec EXCEPT !.out = HandleSwitchPressCatch(
                                         IF NotifyLeg(rec) = "rejected"
                                         THEN rec.nstatus ELSE Undefined)]
             ELSE rec

SetPress(p, rec) == presses' = [presses EXCEPT ![p] = Settle(rec)]

handleSwitchPress(switchIndex, src) ==
    /\ Alive
    /\ Len(presses) < MaxPresses
    /\ presses' = Append(presses,
          IF InvalidSwitchIndex(switchIndex)
          THEN [NewPress(switchIndex, src) EXCEPT !.out = "BadRequest"]
          ELSE Settle(SendApiRequestBegin(
                          TurnOnBulbBegin(NewPress(switchIndex, src), switchIndex - 1),
                          ArrGet(SWITCH_PINS, switchIndex - 1))))
    /\ boot' = ProcessAfter(presses')
    /\ UNCHANGED <<gpioAvailable, switches, bulbs, isMonitoring, watchers, exported,
                   level, closed, users, upserts, run, fetched, env, init, cleanups, warned>>

\* AppController.testSwitch
PressHttp(switchIndex) ==
    /\ boot = "ready"
    /\ handleSwitchPress(switchIndex, "http")

\* the callback startMonitoring registered: a rising edge on a watched pin
PressEdge(w) ==
    /\ w \in watchers
    /\ handleSwitchPress(w.index + 1, "edge")

WriteOutcomes(pin) == IF pin \in exported THEN {TRUE, FALSE} ELSE {FALSE}

\* await bulb.write(1) is over
BulbOnDone(p, ok) ==
    /\ Alive
    /\ p \in DOMAIN presses
    /\ presses[p].bpc = "on"
    /\ ok \in WriteOutcomes(presses[p].handle)
    /\ LET rec == presses[p]
           wrote == [rec EXCEPT !.steps = Append(@,
                        Step("on", TRUE, rec.bulbIndex, rec.handle, ok, 0))]
       IN  /\ SetPress(p, IF ok THEN [wrote EXCEPT !.bpc = "hold", !.timer = 0]
                          ELSE TurnOnBulbCatch(wrote))
           /\ level' = IF ok THEN [level EXCEPT ![rec.handle] = 1] ELSE level
    /\ UNCHANGED <<gpioAvailable, switches, bulbs, isMonitoring, watchers, exported,
                   boot, closed, users, upserts, run, fetched, env, init, cleanups, warned>>

\* the simulated write latency is over
SimDelayDone(p) ==
    /\ Alive
    /\ p \in DOMAIN presses
    /\ presses[p].bpc = "simDelay"
    /\ presses[p].timer >= SIM_DELAY_MS
    /\ SetPress(p, [presses[p] EXCEPT !.bpc = "hold", !.timer = 0])
    /\ UNCHANGED <<gpioAvailable, switches, bulbs, isMonitoring, watchers, exported,
                   level, boot, closed, users, upserts, run, fetched, env, init,
                   cleanups, warned>>

\* the hold timer fires: the OFF step
HoldDone(p) ==
    /\ Alive
    /\ p \in DOMAIN presses
    /\ presses[p].bpc = "hold"
    /\ presses[p].timer >= HOLD_MS
    /\ LET rec == presses[p]
       IN  SetPress(p,
             IF rec.handle = Undefined
             THEN [rec EXCEPT !.bpc = "done", !.bres = "simulated",
                              !.steps = Append(@, Step("off", FALSE, rec.bulbIndex,
                                                       Undefined, TRUE, rec.timer))]
             ELSE [rec EXCEPT !.bpc = "off"])
    /\ UNCHANGED <<gpioAvailable, switches, bulbs, isMonitoring, watchers, exported,
                   level, boot, closed, users, upserts, run, fetched, env, init,
                   cleanups, warned>>

\* an OFF write that leaves the output as it is
LevelAfterOffUnchanged(pin) == level

\* the outputs after bulb.write(0) on pin has succeeded
LevelAfterOff(pin) == [level EXCEPT ![pin] = 0]

\* await bulb.write(0) is over
BulbOffDone(p, ok) ==
    /\ Alive
    /\ p \in DOMAIN presses
    /\ presses[p].bpc = "off"
    /\ ok \in WriteOutcomes(presses[p].handle)
    /\ LET rec == presses[p]
           wrote == [rec EXCEPT !.steps = Append(@,
                        Step("off", TRUE, rec.bulbIndex, rec.handle, ok, rec.timer))]
       IN  /\ SetPress(p, IF ok THEN [wrote EXCEPT !.bpc = "done", !.bres = "hardware"]
                          ELSE TurnOnBulbCatch(wrote))
           /\ level' = IF ok THEN LevelAfterOff(rec.handle) ELSE level
    /\ UNCHANGED <<gpioAvailable, switches, bulbs, isMonitoring, watchers, exported,
                   boot, closed, users, upserts, run, fetched, env, init, cleanups, warned>>

\* await this.userService.getUser(switchIndex) is over
LookupDone(p, dbOk) ==
    /\ Alive
    /\ p \in DOMAIN presses
    /\ presses[p].npc = "lookup"
    /\ LET rec == presses[p]
           user == GetUser(users, rec.key)
       IN  SetPress(p,
             IF ~dbOk THEN SendApiRequestCatch(rec, "db", Undefined)
             ELSE IF user = <<>> THEN SendApiRequestNoUser(rec)
             ELSE [rec EXCEPT !.npc = "send",
                              !.sent = Append(@, [token |-> user[1].accessToken,
                                                  payload |-> Payload(user[1])])])
    /\ boot' = ProcessAfter(presses')
    /\ UNCHANGED <<gpioAvailable, switches, bulbs, isMonitoring, watchers, exported,
                   level, closed, users, upserts, run, fetched, env, init, cleanups, warned>>

\* await this.apiService.sendSwitchEvent(payload, accessToken) is over
ApiDone(p, status) ==
    /\ Alive
    /\ p \in DOMAIN presses
    /\ presses[p].npc = "send"
    /\ LET rec == [presses[p] EXCEPT !.answered = TRUE, !.apiStatus = status]
       IN  SetPress(p, IF AxiosResolves(status)
                       THEN [rec EXCEPT !.npc = "done", !.nres = "data"]
                       ELSE SendApiRequestCatch(rec, "api", status))
    /\ boot' = ProcessAfter(presses')
    /\ UNCHANGED <<gpioAvailable, switches, bulbs, isMonitoring, watchers, exported,
                   level, closed, users, upserts, run, fetched, env, init, cleanups, warned>>

\* the timer a pulse is waiting on, in ms
TimerDue(rec) == IF rec.bpc = "simDelay" THEN SIM_DELAY_MS ELSE HOLD_MS

Waiting(rec) == rec.bpc \in {"simDelay", "hold"} /\ rec.timer < TimerDue(rec)

\* TickMs pass on every armed timer
Tick ==
    /\ Alive
    /\ \E p \in DOMAIN presses : Waiting(presses[p])
    /\ presses' = [p \in DOMAIN presses |->
                     IF Waiting(presses[p])
                     THEN [presses[p] EXCEPT !.timer = @ + TickMs]
                     ELSE presses[p]]
    /\ UNCHANGED <<gpioAvailable, switches, bulbs, isMonitoring, watchers, exported,
                   level, boot, closed, users, upserts, run, fetched, env, init,
                   cleanups, warned>>

----------------------------------------------------------------------------
(* Specifications *)

\* the list fetchUsers resolves to at start-up: the first two users
BootResponse == Response(TRUE, <<ApiUser(1, run), ApiUser(2, run)>>)

Next ==
    \/ \E fs \in Hosts, failAt \in InitFailPoints : Initialize(fs, failAt)
    \/ BootSync(BootResponse)
    \/ BootSyncFails
    \/ \E u \in upserts : UpsertCommit(u)
    \/ Shutdown
    \/ \E i \in PressInputs : PressHttp(i)
    \/ \E w \in {x \in watchers : x.index + 1 \in PressInputs} : PressEdge(w)
    \/ \E p \in 1 .. MaxPresses, ok \in BOOLEAN : BulbOnDone(p, ok)
    \/ \E p \in 1 .. MaxPresses : SimDelayDone(p)
    \/ \E p \in 1 .. MaxPresses : HoldDone(p)
    \/ \E p \in 1 .. MaxPresses, ok \in BOOLEAN : BulbOffDone(p, ok)
    \/ \E p \in 1 .. MaxPresses, dbOk \in BOOLEAN : LookupDone(p, dbOk)
    \/ \E p \in 1 .. MaxPresses, status \in ApiOutcomes : ApiDone(p, status)
    \/ Tick

\* the event loop runs every continuation that is ready, timers expire and
\* every request is answered or times out: while a step of a press is possible,
\* one is taken
Progress ==
    \/ \E p \in 1 .. MaxPresses, ok \in BOOLEAN : BulbOnDone(p, ok)
    \/ \E p \in 1 .. MaxPresses : SimDelayDone(p)
    \/ \E p \in 1 .. MaxPresses : HoldDone(p)
    \/ \E p \in 1 .. MaxPresses, ok \in BOOLEAN : BulbOffDone(p, ok)
    \/ \E p \in 1 .. MaxPresses, dbOk \in BOOLEAN : LookupDone(p, dbOk)
    \/ \E p \in 1 .. MaxPresses, status \in ApiOutcomes : ApiDone(p, status)
    \/ Tick

Spec == Init /\ [][Next]_vars

FairSpec == Spec /\ WF_vars(Progress)

\* the start-up syncs over one database, run after run, for every list of
\* distinct users the API may return and for a response of another shape
Lists(n) ==
    {f \in [1 .. n -> UserIds] : \A a, b \in 1 .. n : a # b => f[a] # f[b]}

SyncResponses ==
    {Response(TRUE, [k \in DOMAIN f |-> ApiUser(f[k], run)]) :
        f \in UNION {Lists(n) : n \in 0 .. MaxUsers}}
    \cup {Response(FALSE, <<>>)}

\* responses whose users collection is not a list: the users keyed by their id
NotListResponses ==
    {Response(FALSE, <<ApiUser(1, run)>>),
     Response(FALSE, <<ApiUser(2, run), ApiUser(1, run)>>)}

SyncNext ==
    \/ \E fs \in Hosts, failAt \in InitFailPoints : Initialize(fs, failAt)
    \/ \E resp \in SyncResponses \cup NotListResponses : BootSync(resp)
    \/ BootSyncFails
    \/ \E u \in upserts : UpsertCommit(u)
    \/ Restart

SyncSpec == Init /\ [][SyncNext]_vars

\* a start-up sync for which the API returns one user more than there are
\* switch pins, or exactly as many
TooManyUsers ==
    Response(TRUE, [k \in 1 .. Len(SWITCH_PINS) + 1 |-> ApiUser(k, run)])

AsManyUsers ==
    Response(TRUE, [k \in 1 .. Len(SWITCH_PINS) |-> ApiUser(k, run)])

OverflowNext ==
    \/ \E fs \in Hosts : Initialize(fs, 0)
    \/ \E resp \in {TooManyUsers, AsManyUsers} : BootSync(resp)
    \/ BootSyncFails
    \/ \E u \in upserts : UpsertCommit(u)
    \/ \E u \in upserts : UpsertRejects(u)
    \/ Restart

OverflowSpec == Init /\ [][OverflowNext]_vars

\* the device in service: start-up with any DEVICE_ID and any list of users,
\* then presses of every switch from the test endpoint and from the pins, with
\* the pins and the database working and the API accepting or refusing the
\* event
ServeInit == \E e \in DeviceIdEnv : Constructed(e)

ServeNext ==
    \/ \E fs \in Hosts : Initialize(fs, 0)
    \/ \E resp \in SyncResponses : BootSync(resp)
    \/ \E u \in upserts : UpsertCommit(u)
    \/ \E i \in 1 .. Len(SWITCH_PINS) : PressHttp(i)
    \/ \E w \in watchers : PressEdge(w)
    \/ \E p \in 1 .. MaxPresses : BulbOnDone(p, TRUE)
    \/ \E p \in 1 .. MaxPresses : SimDelayDone(p)
    \/ \E p \in 1 .. MaxPresses : HoldDone(p)
    \/ \E p \in 1 .. MaxPresses : BulbOffDone(p, TRUE)
    \/ \E p \in 1 .. MaxPresses : LookupDone(p, TRUE)
    \/ \E p \in 1 .. MaxPresses, status \in {200, 500} : ApiDone(p, status)
    \/ Tick

ServeSpec == ServeInit /\ [][ServeNext]_vars

\* the life cycle of the controller with its public methods called in any
\* order: startMonitoring besides start-up's call, onModuleDestroy before,
\* during and after start-up and more than once, presses of the first switch
\* in between
LifeNext ==
    \/ \E fs \in Hosts, failAt \in InitFailPoints : Initialize(fs, failAt)
    \/ BootSync(BootResponse)
    \/ BootSyncFails
    \/ \E u \in upserts : UpsertCommit(u)
    \/ StartMonitoringCall
    \/ onModuleDestroy
    \/ PressHttp(1)
    \/ \E w \in {x \in watchers : x.index = 0} : PressEdge(w)
    \/ \E p \in 1 .. MaxPresses, ok \in BOOLEAN : BulbOnDone(p, ok)
    \/ \E p \in 1 .. MaxPresses : SimDelayDone(p)
    \/ \E p \in 1 .. MaxPresses : HoldDone(p)
    \/ \E p \in 1 .. MaxPresses, ok \in BOOLEAN : BulbOffDone(p, ok)
    \/ \E p \in 1 .. MaxPresses : LookupDone(p, TRUE)
    \/ \E p \in 1 .. MaxPresses, status \in {200, 500} : ApiDone(p, status)
    \/ Tick

LifeSpec == Init /\ [][LifeNext]_vars

\* the file systems the probe is exercised with: every combination of the
\* outcomes of its checks, with the test pin left exported or not and its
\* unexport failing or not.  A file that is missing can be neither read nor
\* written
ProbeFileSystems ==
    {fs \in [dockerenv : BOOLEAN, cgroup : {"docker", "other", "unreadable"},
             hasGpioExport : BOOLEAN, hasGpioMem : BOOLEAN, hasDeviceTree : BOOLEAN,
             model : {"pi", "other", "unreadable"},
             exportWritable : BOOLEAN, exportOk : BOOLEAN, pinCreated : BOOLEAN,
             exportedPins : SUBSET {TEST_PIN}, stuck : SUBSET {TEST_PIN}] :
        /\ (~fs.hasDeviceTree => fs.model = "unreadable")
        /\ (~fs.hasGpioExport =>
              /\ ~fs.exportWritable /\ ~fs.exportOk /\ ~fs.pinCreated
              /\ fs.exportedPins = {})}

\* configured pins an earlier process may have left exported: the first and
\* the last switch pin, the first and the last bulb pin
StalePins == {SWITCH_PINS[1], SWITCH_PINS[5], BULB_PINS[1], BULB_PINS[5]}

\* a Raspberry Pi on which some of these pins are still exported, and the
\* unexport of some of those fails
StaleFileSystems ==
    {[PiHost EXCEPT !.exportedPins = stale, !.stuck = stuck] :
        stale \in SUBSET StalePins, stuck \in SUBSET StalePins} \ 
    {fs \in {[PiHost EXCEPT !.exportedPins = stale, !.stuck = stuck] :
                stale \in SUBSET StalePins, stuck \in SUBSET StalePins} :
        ~(fs.stuck \subseteq fs.exportedPins)}

\* start-up on every such host, with a pin claim failing at any place or none
StartNext ==
    \/ \E fs \in ProbeFileSystems \cup StaleFileSystems, failAt \in 0 .. Len(ClaimOrder) :
          Initialize(fs, failAt)
    \/ BootSync(BootResponse)
    \/ BootSyncFails
    \/ \E u \in upserts : UpsertCommit(u)

StartSpec == Init /\ [][StartNext]_vars

----------------------------------------------------------------------------
(* Claims *)

ValidIndices == 1 .. 5

\* C1: in hardware mode every pin write a handleSwitchPress(i) call issues goes
\* to pin BULB_PINS[i-1], whatever other presses are in flight: none goes to
\* another bulb pin or to a switch pin.
C1_WritesOnlyOwnBulb ==
    \A p \in DOMAIN presses : \A k \in DOMAIN presses[p].steps :
        LET step == presses[p].steps[k]
        IN  step.phys =>
              /\ presses[p].idx \in ValidIndices
              /\ step.pin = BULB_PINS[presses[p].idx]
              /\ step.pin \notin SwitchPinSet

\* two presses of different switches whose pulses overlap, both bulbs written ON
C1_Witness ==
    /\ gpioAvailable
    /\ \E p, q \in DOMAIN presses :
          /\ presses[p].idx # presses[q].idx
          /\ presses[p].bpc = "hold" /\ presses[q].bpc = "hold"
          /\ presses[p].steps # <<>> /\ presses[q].steps # <<>>

\* C2: in every pulse, simulated or physical, the first step is the ON step,
\* the hold starts after it, and the OFF step is issued only once the hold has
\* lasted its full 2000 ms; no pulse has an OFF step that is not preceded by its
\* own ON step.
C2_OffOnlyAfterFullHold ==
    \A p \in DOMAIN presses :
        LET rec == presses[p]
            st == rec.steps
        IN  /\ (st # <<>> => st[1].kind = "on")
            /\ \A k \in DOMAIN st :
                 st[k].kind = "off" =>
                    k = 2 /\ st[1].ok /\ st[k].held >= 2000
            /\ (rec.bpc = "hold" => Len(st) = 1 /\ st[1].ok)
            /\ (rec.bpc = "off" => Len(st) = 1 /\ rec.timer >= 2000)

\* a physical pulse that has run to its OFF write while another pulse is held
C2_Witness ==
    \E p, q \in DOMAIN presses :
        /\ presses[p].bres = "hardware"
        /\ Len(presses[p].steps) = 2
        /\ presses[q].bpc = "hold" /\ presses[q].timer < 2000

\* C3: handleSwitchPress(i) with i <= 0 or i > 5 raises BadRequestException
\* having written no pin, looked up no user and called no API, and the step
\* leaves the controller, the pins and the user store as they were.
C3_InvalidIndexRejected ==
    /\ [](\A p \in DOMAIN presses :
            presses[p].idx \notin ValidIndices =>
               /\ presses[p].out = "BadRequest"
               /\ presses[p].steps = <<>>
               /\ presses[p].lookups = 0
               /\ presses[p].sent = <<>>
               /\ presses[p].bpc = "none" /\ presses[p].npc = "none")
    /\ [][(/\ Len(presses') = Len(presses) + 1
           /\ presses'[Len(presses')].idx \notin ValidIndices)
          => /\ UNCHANGED <<gpioAvailable, switches, bulbs, isMonitoring, watchers,
                            exported, level, users, upserts>>
             /\ SubSeq(presses', 1, Len(presses)) = presses]_vars

\* both invalid neighbours of the range were tried, in hardware mode, next to
\* a pulse in flight
C3_Witness ==
    /\ gpioAvailable
    /\ \E p, q \in DOMAIN presses :
          /\ presses[p].idx = 0 /\ presses[p].out = "BadRequest"
          /\ presses[q].idx = 6 /\ presses[q].out = "BadRequest"

\* C4: a handleSwitchPress call with a valid index has neither returned nor
\* raised while one of its two legs is still running.
C4_CompletesAfterBothLegs ==
    \A p \in DOMAIN presses :
        (presses[p].idx \in ValidIndices /\ presses[p].out # "pending")
           => presses[p].bpc = "done" /\ presses[p].npc = "done"

OnDone(p) ==
    /\ p \in DOMAIN presses
    /\ presses[p].steps # <<>>
    /\ presses[p].steps[1].kind = "on" /\ presses[p].steps[1].ok

OffIssued(p) ==
    /\ p \in DOMAIN presses
    /\ Len(presses[p].steps) = 2
    /\ presses[p].steps[2].kind = "off"

\* C5: the step in which the notification leg of a press fails (lookup error or
\* API error) leaves the bulb leg of that press where it was, and every ON step
\* that succeeded is eventually followed by the OFF step of the same pulse
\* (steps are never removed from a pulse, so from some point on every pulse
\* that has its ON step has its OFF step).
C5_FailureDoesNotCancelPulse ==
    /\ <>[](\A p \in 1 .. MaxPresses : OnDone(p) => OffIssued(p))
    /\ [][\A p \in DOMAIN presses :
            (presses[p].nres # "rejected" /\ presses'[p].nres = "rejected")
               => /\ presses'[p].bpc = presses[p].bpc
                  /\ presses'[p].timer = presses[p].timer
                  /\ presses'[p].steps = presses[p].steps
                  /\ presses'[p].bres = presses[p].bres
                  /\ presses'[p].handle = presses[p].handle]_vars

\* a press that raised for an API error and whose bulb was written ON and OFF
C5_Witness ==
    \E p \in DOMAIN presses :
        /\ presses[p].nres = "rejected" /\ presses[p].nerr = "api"
        /\ presses[p].out = "rethrown"
        /\ OnDone(p) /\ OffIssued(p) /\ presses[p].steps[2].phys

NoBulbFault(rec) ==
    /\ \A k \in DOMAIN rec.steps : rec.steps[k].ok
    /\ rec.bres # "notInit"

CompletePulse(rec) ==
    /\ Len(rec.steps) = 2
    /\ rec.steps[1].kind = "on" /\ rec.steps[1].ok
    /\ rec.steps[2].kind = "off" /\ rec.steps[2].ok /\ rec.steps[2].held >= 2000

\* C6: when getUser finds no row for the pressed switch, the notification leg
\* ends with the "no user" value, without raising and without an API request;
\* handleSwitchPress then returns both values once the bulb leg is over, and
\* the bulb leg has run its whole ON/hold/OFF pulse (unless the bulb handle was
\* missing or a pin write failed).
C6_NoUserIsAResult ==
    /\ [](\A p \in DOMAIN presses :
            presses[p].nres = "noUser" =>
               /\ presses[p].sent = <<>>
               /\ ~Raised(presses[p])
               /\ (presses[p].bpc = "done" <=> presses[p].out = "returned")
               /\ presses[p].out = "returned" =>
                    /\ presses[p].ret[1].sendApiRequest = "noUser"
                    /\ presses[p].ret[1].turnOnBulb = presses[p].bres
                    /\ NoBulbFault(presses[p]) => CompletePulse(presses[p]))
    /\ [][\A p \in DOMAIN presses :
            (/\ presses[p].npc = "lookup" /\ presses'[p].npc # "lookup"
             /\ \A k \in DOMAIN users : users[k].switchInput # presses[p].key
             /\ presses'[p].nerr # "db")
               => /\ presses'[p].nres = "noUser"
                  /\ presses'[p].sent = <<>>
                  /\ ~Raised(presses'[p])]_vars

\* a press of a switch nobody is bound to that returned after a whole pulse
C6_Witness ==
    \E p \in DOMAIN presses :
        /\ presses[p].nres = "noUser"
        /\ presses[p].out = "returned"
        /\ CompletePulse(presses[p])
        /\ users # <<>>

\* C7: a handleSwitchPress call with a valid index raises only when its
\* notification leg failed; a missing bulb handle or a failed ON or OFF write
\* ends the bulb leg with an error value, which is the bulb part of the result
\* when the call returns.
C7_BulbFailureIsAValue ==
    \A p \in DOMAIN presses :
        LET rec == presses[p]
        IN  rec.idx \in ValidIndices =>
              /\ (Raised(rec) => rec.nres = "rejected")
              /\ (~NoBulbFault(rec) =>
                    /\ rec.bpc = "done"
                    /\ rec.bres \in {"error", "notInit"})
              /\ (rec.out = "returned" /\ ~NoBulbFault(rec) =>
                    rec.ret[1].turnOnBulb \in {"error", "notInit"})

\* a press whose ON write failed and one whose OFF write failed, both returned
C7_Witness ==
    \E p, q \in DOMAIN presses :
        /\ presses[p].out = "returned" /\ presses[q].out = "returned"
        /\ Len(presses[p].steps) = 1 /\ ~presses[p].steps[1].ok
        /\ Len(presses[q].steps) = 2 /\ ~presses[q].steps[2].ok

\* C8: a switch event the API answers with 401 makes handleSwitchPress raise
\* Unauthorized; one it answers with another non-2xx status or not at all makes
\* it raise another error; a call that returned had its event, if it sent one,
\* answered with a 2xx status.
C8_ApiFailuresAreRaised ==
    \A p \in DOMAIN presses :
        LET rec == presses[p]
        IN  /\ (rec.answered /\ rec.apiStatus = 401 => rec.out = "Unauthorized")
            /\ (rec.answered /\ rec.apiStatus # 401
                  /\ ~(rec.apiStatus >= 200 /\ rec.apiStatus < 300)
                  => rec.out = "rethrown")
            /\ (rec.out = "returned" /\ rec.sent # <<>> =>
                  rec.answered /\ rec.apiStatus >= 200 /\ rec.apiStatus < 300)
            /\ (rec.out = "Unauthorized" => rec.answered /\ rec.apiStatus = 401)

\* one press refused with 401 and one that ran into a timeout
C8_Witness ==
    \E p, q \in DOMAIN presses :
        /\ presses[p].answered /\ presses[p].apiStatus = 401
        /\ presses[p].out = "Unauthorized"
        /\ presses[q].answered /\ presses[q].apiStatus = Undefined
        /\ presses[q].out = "rethrown"

\* C9: in the first run over an empty table, once fetchAndStoreUsers has
\* returned for a list of N <= 5 users (start-up has gone on to "ready"), the
\* table holds exactly N rows and the row of the i-th fetched user has
\* switchInput SWITCH_PINS[i].
C9_StoreCompleteWhenSyncReturns ==
    (/\ run = 1
     /\ boot = "ready"
     /\ fetched # <<>>
     /\ fetched[1].ok
     /\ Len(fetched[1].users) <= 5)
    => LET f == fetched[1].users
       IN  /\ Len(users) = Len(f)
           /\ \A i \in DOMAIN f :
                \E k \in DOMAIN users :
                   /\ users[k].userId = f[i].id
                   /\ users[k].switchInput = SWITCH_PINS[i]

\* C10: the upsert of a user whose id is already in the table keeps the number
\* of rows and every row's id, userId and switchInput; the row of that user
\* gets the new accessToken and the new location, every other row is untouched,
\* and the table still has one row for that id.
C10_UpsertKeepsBinding ==
    [][\A u \in upserts :
         (/\ upserts' = upserts \ {u}
          /\ run' = run
          /\ \E k \in DOMAIN users : users[k].userId = u.user.id)
         => /\ Len(users') = Len(users)
            /\ Cardinality({k \in DOMAIN users' : users'[k].userId = u.user.id}) = 1
            /\ \A k \in DOMAIN users :
                 /\ users'[k].id = users[k].id
                 /\ users'[k].userId = users[k].userId
                 /\ users'[k].switchInput = users[k].switchInput
                 /\ IF users[k].userId = u.user.id
                    THEN /\ users'[k].accessToken = u.user.accessToken
                         /\ JSONparse(users'[k].location) = u.user.location
                    ELSE users'[k] = users[k]]_vars

\* a row created in an earlier run that now carries the token of this run's
\* fetch, in which its user stands at another position than the one it is
\* bound to
C10_Witness ==
    /\ run = 2
    /\ fetched # <<>>
    /\ \E k \in DOMAIN users, i \in DOMAIN fetched[1].users :
          /\ fetched[1].users[i].id = users[k].userId
          /\ users[k].accessToken = fetched[1].users[i].accessToken
          /\ JSONparse(users[k].location) = fetched[1].users[i].location
          /\ users[k].switchInput # SWITCH_PINS[i]

\* C11: in every state of the table reached by start-up syncs over runs of the
\* process, with any fetched lists, no two rows have the same switchInput and
\* no two rows have the same userId.
C11_StoreKeysUnique ==
    \A a, b \in DOMAIN users :
        a # b => /\ users[a].switchInput # users[b].switchInput
                 /\ users[a].userId # users[b].userId

\* the start-up sync of the first run has fully completed: the list was
\* fetched and every upsert it started has reached the table
SyncCompleted ==
    /\ run = 1
    /\ fetched # <<>>
    /\ fetched[1].ok
    /\ upserts = {}

C13_SimulationHoldsNoHandles ==
    ~gpioAvailable =>
        /\ getStatus.mode = "simulation"
        /\ getStatus.gpioAvailable = FALSE
        /\ getStatus.switchCount = 0
        /\ getStatus.bulbCount = 0

\* C14: once an initialize() call in which a pin claim failed has finished, no
\* pin claimed in it is still exported and the switch and bulb handle arrays
\* are empty.
C14_FailedInitReleasesPins ==
    (init.failed /\ init.out # "pending") =>
        /\ exported = {}
        /\ switches = <<>>
        /\ bulbs = <<>>

\* C15: an initialize() call whose hardware initialization failed after the
\* probe reported GPIO available has completed without raising; gpioAvailable
\* is false in every state after it; start-up is then at the user sync, which
\* can run, and when the sync is over startMonitoring has been called
\* (isMonitoring is true once start-up is ready, until shutdown).
C15_FailedInitFallsBackToSimulation ==
    /\ [](init.failed =>
            /\ init.out = "returned"
            /\ ~gpioAvailable
            /\ getStatus.mode = "simulation"
            /\ boot \in {"initialized", "ready", "exited"}
            /\ (boot = "initialized" => ENABLED BootSync(BootResponse))
            /\ (boot = "ready" /\ ~closed => isMonitoring))
    /\ [][(init'.failed /\ ~init.failed) => boot' = "initialized"]_vars
    /\ [][(init.failed /\ boot = "initialized" /\ boot' = "ready")
            => isMonitoring' /\ fetched' # <<>>]_vars

\* after a failed hardware initialization start-up went on: the users were
\* fetched, monitoring is on and a press was served as a simulated pulse
C15_Witness ==
    /\ init.failed
    /\ boot = "ready"
    /\ isMonitoring
    /\ fetched # <<>>
    /\ \E p \in DOMAIN presses :
          presses[p].out = "returned" /\ presses[p].bres = "simulated"

\* C16 as stated: an initialize() call in which a pin claim failed does not
\* complete normally: the failure is raised to its caller.
C16_FailureRaisedToCaller ==
    (init.failed /\ init.out # "pending") => init.out = "raised"

\* C16 amended: a pin claim that fails during initialize() is raised by
\* initializeHardware to initialize(), whose catch block logs it (every
\* initialize() step that leaves newly claimed pins behind with gpioAvailable
\* false has logged the failure); initialize() itself completes normally and
\* its caller sees no error.
C16_FailureCaughtByInitialize ==
    /\ [](init.failed => init.out = "returned" /\ boot # "constructed")
    /\ [][(boot = "constructed" /\ boot' # "constructed" /\ run' = run
           /\ (exported' # exported \/ switches' # switches \/ bulbs' # bulbs)
           /\ ~gpioAvailable')
            => init'.failed /\ init'.out = "returned"]_vars

\* an initialize() call failed at a bulb pin, after the five switch pins and
\* the first bulb pin were claimed, and returned
C16_Witness ==
    /\ init.failed
    /\ init.out = "returned"
    /\ boot = "initialized"
    /\ Len(switches) = 5 /\ Len(bulbs) = 1

\* C17: a startMonitoring call made while isMonitoring is true (it logs its
\* warning) leaves isMonitoring, the watchers and the pins as they were; no
\* step adds a watcher unless it turns isMonitoring from false to true in
\* hardware mode, so that no switch pin ever has two watchers; a call in
\* simulation mode sets isMonitoring and registers nothing.
C17_StartMonitoringIdempotent ==
    /\ [](\A w \in watchers :
            /\ w.n = 1
            /\ \A v \in watchers : v.pin = w.pin => v = w)
    /\ [][(warned' /\ ~warned)
            => /\ isMonitoring /\ isMonitoring'
               /\ UNCHANGED <<watchers, gpioAvailable, switches, bulbs, exported,
                              level, presses, closed, cleanups>>]_vars
    /\ [][~(watchers' \subseteq watchers)
            => ~isMonitoring /\ isMonitoring' /\ gpioAvailable]_vars
    /\ [][(~gpioAvailable /\ ~isMonitoring /\ isMonitoring')
            => UNCHANGED <<watchers, gpioAvailable, switches, bulbs, exported,
                           level>>]_vars

\* in hardware mode a second startMonitoring call was made and warned, with
\* one watcher on each of the five switch pins
C17_Witness ==
    /\ gpioAvailable
    /\ isMonitoring
    /\ warned
    /\ Cardinality(watchers) = 5
    /\ {w.pin : w \in watchers} = SwitchPinSet

\* a cleanup() call is made in this step by onModuleDestroy
DestroyStep == Len(cleanups') = Len(cleanups) + 1 /\ boot' = boot /\ run' = run

C19_ShutdownRepeatable ==
    /\ [](\A i, j \in DOMAIN cleanups :
            i < j => /\ cleanups[i].unwatched \cap cleanups[j].unwatched = {}
                     /\ cleanups[i].written \cap cleanups[j].written = {}
                     /\ cleanups[i].unexported \cap cleanups[j].unexported = {})
    /\ []((Alive /\ Len(cleanups) < MaxCleanups) => ENABLED onModuleDestroy)
    /\ [][DestroyStep => ~isMonitoring' /\ closed']_vars
    /\ [][(DestroyStep /\ (\/ ~gpioAvailable
                            \/ boot = "constructed"
                            \/ \E i \in DOMAIN cleanups : cleanups[i].unexported # {}))
            => /\ cleanups'[Len(cleanups')] = PinOps({}, {}, {})
               /\ UNCHANGED <<watchers, exported, level, switches, bulbs,
                              gpioAvailable>>]_vars

\* onModuleDestroy was called before initialize(), and twice more after a
\* start-up in hardware mode: only the second of the three calls touched pins
C19_Witness ==
    /\ gpioAvailable
    /\ Len(cleanups) = 3
    /\ cleanups[1] = PinOps({}, {}, {})
    /\ cleanups[2].unexported = SwitchPinSet \cup BulbPinSet
    /\ cleanups[3] = PinOps({}, {}, {})
    /\ ~isMonitoring

\* the activation of press rec has failed: its notification leg raised an
\* API or lookup error, or found no user
FailedActivation(rec) == rec.nres \in {"rejected", "noUser"}

\* C20: the step in which an activation fails (API error, lookup error or no
\* user) leaves isMonitoring, the watchers and the pin handles as they were,
\* and after a failed activation the controller still serves activations: the
\* process runs and a further press, from the test endpoint or from a watched
\* pin, is taken up.
C20_FailureScopedToActivation ==
    /\ []((\E p \in DOMAIN presses : FailedActivation(presses[p]))
            => /\ Alive
               /\ (Len(presses) < MaxPresses /\ boot = "ready")
                     => /\ ENABLED PressHttp(1)
                        /\ \A w \in watchers : ENABLED PressEdge(w))
    /\ [][(\E p \in DOMAIN presses :
             ~FailedActivation(presses[p]) /\ FailedActivation(presses'[p]))
            => UNCHANGED <<isMonitoring, watchers, switches, bulbs, gpioAvailable,
                           exported>>]_vars

\* the steps of a pulse that are of one kind
StepsOfKind(rec, kind) == {k \in DOMAIN rec.steps : rec.steps[k].kind = kind}

\* C21: a handleSwitchPress call sends at most one switch event, looks its user
\* up at most once and has at most one ON step and one OFF step, also when the
\* request or a write failed; a start-up that has left the user sync behind,
\* whether it went on or gave up, has made exactly one fetchUsers request, and
\* one that has not reached it has made none.
C21_NoRetry ==
    /\ \A p \in DOMAIN presses :
          /\ Len(presses[p].sent) <= 1
          /\ presses[p].lookups <= 1
          /\ Cardinality(StepsOfKind(presses[p], "on")) <= 1
          /\ Cardinality(StepsOfKind(presses[p], "off")) <= 1
          /\ Len(presses[p].steps) <= 2
    /\ Len(fetched) = IF boot \in {"constructed", "initialized"} THEN 0 ELSE 1

\* one press whose switch event was refused with 500 after its ON write had
\* failed, and one whose OFF write failed after the API gave no answer
C21_Witness ==
    \E p, q \in DOMAIN presses :
        /\ presses[p].answered /\ presses[p].apiStatus = 500
        /\ Len(presses[p].sent) = 1
        /\ Len(presses[p].steps) = 1 /\ ~presses[p].steps[1].ok
        /\ presses[q].answered /\ presses[q].apiStatus = Undefined
        /\ Len(presses[q].steps) = 2 /\ ~presses[q].steps[2].ok

\* the fetchUsers request of this run resolved to a response without a users
\* list
MalformedResponse ==
    fetched # <<>> /\ ~fetched[1].rejected /\ ~fetched[1].ok

C23_MonitoringAfterSyncCompleted ==
    /\ (boot = "ready" => upserts = {})
    /\ (isMonitoring => upserts = {})
    /\ \A p \in DOMAIN presses :
          (/\ fetched # <<>>
           /\ fetched[1].ok
           /\ presses[p].idx \in DOMAIN fetched[1].users
           /\ presses[p].idx \in 1 .. Len(SWITCH_PINS))
          => presses[p].nres # "noUser"

\* C24: isMonitoring is true only in states in which the initialize() call of
\* the run has completed, and in no state after an onModuleDestroy call,
\* whatever calls of initialize, startMonitoring and onModuleDestroy were made.
C24_LifecycleMovesForward ==
    /\ (isMonitoring => init.out = "returned")
    /\ (closed => ~isMonitoring)

\* C25: gpioAvailable changes only in the step of initialize(); once
\* initialize() has returned, no step of startMonitoring, handleSwitchPress and
\* its legs, or onModuleDestroy, in any order, changes gpioAvailable or the
\* mode and flag that getStatus reports (getStatus itself assigns nothing).
C25_AvailabilityWrittenOnlyByInitialize ==
    /\ [][gpioAvailable' # gpioAvailable
            => boot = "constructed" /\ init.out = "pending" /\ init'.out # "pending"]_vars
    /\ [][(init.out = "returned" /\ run' = run)
            => /\ gpioAvailable' = gpioAvailable
               /\ getStatus'.mode = getStatus.mode
               /\ getStatus'.gpioAvailable = getStatus.gpioAvailable]_vars

\* hardware mode is still reported after a press was served, the controller
\* was shut down and startMonitoring was called twice more
C25_Witness ==
    /\ init.out = "returned"
    /\ gpioAvailable
    /\ getStatus.mode = "hardware"
    /\ closed
    /\ isMonitoring
    /\ warned
    /\ \E p \in DOMAIN presses : presses[p].out = "returned"

\* the pin operations of the initialize() call that are of one kind
InitOps(kind) == SelectSeq(init.ops, LAMBDA op : op.kind = kind)

C29_ProbeNeverRaises ==
    init.out # "pending" =>
        /\ ~init.probe.threw
        /\ init.probe.value \in BOOLEAN
        /\ init.probe = checkGpioAvailability(init.fs)
        /\ (\/ ~init.fs.hasGpioExport
            \/ ~init.fs.hasGpioMem
            \/ ~init.fs.exportWritable
            \/ ~init.fs.exportOk
            \/ ~init.fs.pinCreated) => init.probe.value = FALSE
        /\ (gpioAvailable => init.probe.value)
        /\ (~init.failed => gpioAvailable = init.probe.value)

\* in a container whose model file cannot be read and whose cgroup file is
\* missing, with the test pin left exported and the export write failing:
\* the probe returned false and the controller is in simulation mode
C29_Witness ==
    /\ init.out = "returned"
    /\ init.fs.dockerenv
    /\ init.fs.cgroup = "unreadable"
    /\ init.fs.hasGpioExport /\ init.fs.hasGpioMem /\ init.fs.hasDeviceTree
    /\ init.fs.model = "unreadable"
    /\ init.fs.exportWritable
    /\ init.fs.exportedPins = {TEST_PIN}
    /\ ~init.fs.exportOk
    /\ init.probe = Returned(FALSE)
    /\ ~gpioAvailable
    /\ boot = "ready"

\* C27: a press is taken up whatever pulses are in flight, and its pulse
\* starts in the step of the press: in hardware mode its ON write on its bulb
\* pin is issued at once, in simulation mode its ON step is logged at once; the
\* ON write, the end of the hold and the OFF write of a pulse wait for no other
\* pulse, and every hold is timed from its own ON step.  (That the OFF write of
\* a first pulse drives the bulb LOW while a second pulse of the same switch is
\* still holding is the state of C27_Witness.)
C27_PressesNotSerialized ==
    /\ []((boot = "ready" /\ Len(presses) < MaxPresses)
            => /\ \A i \in PressInputs : ENABLED PressHttp(i)
               /\ \A w \in watchers : ENABLED PressEdge(w))
    /\ [][(Len(presses') = Len(presses) + 1 /\ run' = run)
            => LET rec == presses'[Len(presses')]
               IN  rec.idx \in ValidIndices =>
                     IF ~gpioAvailable
                     THEN rec.bpc = "simDelay" /\ Len(rec.steps) = 1
                     ELSE IF ArrGet(bulbs, rec.idx - 1) = Undefined
                     THEN rec.bpc = "done"
                     ELSE rec.bpc = "on" /\ rec.handle = BULB_PINS[rec.idx]]_vars
    /\ [](\A p \in DOMAIN presses :
            Alive =>
              /\ (presses[p].bpc = "on" /\ presses[p].handle \in exported)
                    => ENABLED BulbOnDone(p, TRUE)
              /\ (presses[p].bpc = "hold" /\ presses[p].timer >= HOLD_MS)
                    => ENABLED HoldDone(p)
              /\ (presses[p].bpc = "off" /\ presses[p].handle \in exported)
                    => ENABLED BulbOffDone(p, TRUE))
    /\ [][\A p \in DOMAIN presses :
            (presses[p].bpc # "hold" /\ presses'[p].bpc = "hold")
               => presses'[p].timer = 0]_vars

\* two presses of switch 1 in hardware mode: the first pulse has written
\* GPIO 18 LOW while the second, whose ON write succeeded, has not held for
\* 2000 ms, and the bulb is LOW
C27_Witness ==
    /\ gpioAvailable
    /\ Len(presses) = 2
    /\ presses[1].idx = 1 /\ presses[2].idx = 1
    /\ CompletePulse(presses[1])
    /\ presses[1].steps[2].pin = 18
    /\ presses[2].bpc = "hold"
    /\ presses[2].timer < HOLD_MS
    /\ presses[2].steps[1].ok /\ presses[2].steps[1].pin = 18
    /\ level[18] = 0

\* how a handleSwitchPress call with a valid index has ended, told from its
\* notification leg and from whether its pulse is over, without regard to the
\* mode
ModeFreeOutcome(rec) ==
    IF rec.nres = "rejected"
    THEN IF rec.nstatus = UNAUTHORIZED THEN "Unauthorized" ELSE "rethrown"
    ELSE IF rec.npc = "done" /\ rec.bpc = "done" THEN "returned"
    ELSE "pending"

\* C28: in simulation mode and in hardware mode alike, a handleSwitchPress call
\* with a valid index looks its user up once under the pin of its switch, sends
\* the event that the table and the lookup determine, and ends as its
\* notification leg and the end of its pulse determine; its pulse is an ON step
\* followed, after a hold of 2000 ms, by an OFF step, both on the bulb of the
\* switch, and a pulse that ended without a failed write or missing handle has
\* both steps.  The modes differ in the steps being pin writes in hardware mode
\* and log lines in simulation mode, where no bulb level ever changes.
C28_ModesRunSameSteps ==
    /\ [](\A p \in DOMAIN presses :
            LET rec == presses[p]
                st == rec.steps
            IN  rec.idx \in ValidIndices =>
                  /\ rec.lookups = 1
                  /\ rec.key = SWITCH_PINS[rec.idx]
                  /\ rec.out = ModeFreeOutcome(rec)
                  /\ Len(st) <= 2
                  /\ (Len(st) >= 1 => st[1].kind = "on")
                  /\ (Len(st) = 2 => st[2].kind = "off" /\ st[2].held >= HOLD_MS)
                  /\ \A k \in DOMAIN st :
                        /\ st[k].bulb = rec.idx
                        /\ st[k].phys = gpioAvailable
                        /\ (st[k].phys => st[k].pin = BULB_PINS[rec.idx])
                        /\ (~st[k].phys => st[k].pin = Undefined /\ st[k].ok)
                  /\ ((rec.bpc = "done" /\ NoBulbFault(rec))
                        => /\ CompletePulse(rec)
                           /\ rec.bres = IF gpioAvailable THEN "hardware"
                                          ELSE "simulated")
                  /\ (rec.bpc \in {"hold", "off"} => Len(st) = 1 /\ st[1].ok))
    /\ [][\A p \in DOMAIN presses :
            (presses[p].npc = "lookup" /\ presses'[p].npc # "lookup"
             /\ presses'[p].nerr # "db")
               => LET user == GetUser(users, presses[p].key)
                  IN  IF user = <<>>
                      THEN presses'[p].nres = "noUser" /\ presses'[p].sent = <<>>
                      ELSE /\ presses'[p].npc = "send"
                           /\ presses'[p].sent =
                                 <<[token |-> user[1].accessToken,
                                    payload |-> Payload(user[1])]>>]_vars
    /\ [][\A p \in DOMAIN presses :
            (presses[p].npc = "send" /\ presses'[p].npc # "send")
               => presses'[p].nres =
                     IF AxiosResolves(presses'[p].apiStatus) THEN "data"
                     ELSE "rejected"]_vars
    /\ [][~gpioAvailable' => level' = level]_vars
    /\ [](~gpioAvailable => \A pin \in BulbPinSet : level[pin] = 0)

\* in simulation mode one press returned the API's answer after a whole
\* simulated pulse, and one raised for a 500 while its pulse was simulated to
\* the end
C28_Witness ==
    /\ ~gpioAvailable
    /\ \E p, q \in DOMAIN presses :
          /\ presses[p].out = "returned"
          /\ presses[p].ret[1] = [turnOnBulb |-> "simulated", sendApiRequest |-> "data"]
          /\ CompletePulse(presses[p])
          /\ presses[q].out = "rethrown"
          /\ presses[q].apiStatus = 500
          /\ CompletePulse(presses[q])
          /\ ~presses[q].steps[2].phys

\* the pulse of a press is in flight: its ON write, its hold or its OFF write
\* is under way
PulseInFlight(rec) == rec.bpc \in {"on", "simDelay", "hold", "off"}

\* C30: in hardware mode, as long as no pin write of a pulse has failed, every
\* bulb pin on which no pulse is in flight is LOW; so with no pulse in flight
\* at all, after initialization or after presses, one after the other or
\* overlapping, have run to their end, every bulb output is LOW; and the step
\* of a hardware initialization leaves every bulb output LOW.
C30_BulbsLowWhenIdle ==
    /\ []((/\ gpioAvailable
            /\ \A p \in DOMAIN presses : \A k \in DOMAIN presses[p].steps :
                  presses[p].steps[k].ok)
           => \A pin \in BulbPinSet :
                 (\A p \in DOMAIN presses :
                     PulseInFlight(presses[p]) => presses[p].handle # pin)
                 => level[pin] = 0)
    /\ [][(boot = "constructed" /\ gpioAvailable')
            => \A pin \in BulbPinSet : level'[pin] = 0]_vars

\* in hardware mode two pulses of bulb 1 (GPIO 18) have both run to their OFF
\* write and no pulse is in flight: the output is LOW
C30_Witness ==
    /\ gpioAvailable
    /\ ~closed
    /\ Len(presses) = 2
    /\ \A p \in DOMAIN presses :
          /\ presses[p].idx = 1
          /\ CompletePulse(presses[p])
          /\ presses[p].bpc = "done"
          /\ presses[p].steps[2].pin = 18
    /\ \A pin \in BulbPinSet : level[pin] = 0

\* C31: whenever a pulse issues a pin write (the ON write in the step of its
\* press, the OFF write in the step in which its hold ends), the pin of its
\* bulb handle is exported: none is issued on a handle that onModuleDestroy
\* has unexported.
C31_NoWriteAfterUnexport ==
    [][\A p \in DOMAIN presses' :
         (/\ run' = run
          /\ presses'[p].bpc \in {"on", "off"}
          /\ (p \in DOMAIN presses => presses[p].bpc # presses'[p].bpc))
         => presses'[p].handle \in exported]_vars

\* C32: no handleSwitchPress call started by an edge callback has raised
\* with nobody awaiting its promise: there is no unhandled rejection, and the
\* process has not been terminated by one.
C32_EdgeFailuresHandled ==
    /\ \A p \in DOMAIN presses :
          (presses[p].src = "edge" /\ Raised(presses[p]))
             => ~UnhandledRejection(presses[p])
    /\ boot # "crashed"


\* C33: an upsert that the sync started and that failed was raised to the caller
\* of the sync: start-up has failed with it (fetchAndStoreUsers raised,
\* onModuleInit rethrew, the process exited), and the sync is never taken to
\* have succeeded, with the application ready, while one of its upserts failed.
C33_UpsertFailureRaisedToCaller ==
    \A u \in upserts : u.rejected => boot = "exited"

\* C34: every stored record has a switchInput that is one of the configured
\* switch pins, also when the fetched list is longer than SWITCH_PINS.
C34_StoredSwitchInputIsConfiguredPin ==
    \A k \in DOMAIN users : users[k].switchInput \in SwitchPinSet

\* C34 witness: a list of more users than switch pins was fetched, the upsert
\* of the user beyond the pins was refused, and the others are stored.
C34_Witness ==
    /\ Len(fetched) = 1
    /\ Len(fetched[1].users) > Len(SWITCH_PINS)
    /\ \E u \in upserts : u.rejected /\ u.pos > Len(SWITCH_PINS)
    /\ Len(users) = Len(SWITCH_PINS)

\* C35: in a run whose fetchUsers request was rejected during start-up,
\* initialization has failed and the process has exited, startMonitoring was
\* not called: isMonitoring is false and no edge watcher is registered.
C35_FailedFetchNeverMonitors ==
    (fetched # <<>> /\ fetched[Len(fetched)].rejected)
        => (boot = "exited" /\ ~isMonitoring /\ watchers = {})

\* C35 witness: hardware mode, the pins are claimed (startMonitoring would
\* have registered watchers), and the fetchUsers request of start-up was
\* rejected.
C35_Witness ==
    /\ gpioAvailable
    /\ switches # <<>>
    /\ fetched # <<>>
    /\ fetched[Len(fetched)].rejected
    /\ boot = "exited"

\* the press handleSwitchPress has just been called for, if this step is such a
\* call
CalledPress == presses'[Len(presses')]

\* C36: after the shutdown of a controller in hardware mode, (a) a
\* handleSwitchPress call with a valid index issues no pin write: its bulb leg
\* is over at once with "Bulb not initialized", no handle and no step, while
\* its notification leg has called getUser with the pin of the switch; (b) the
\* lookup of such a press, when it finds the user, sends the switch event with
\* that user's token; (c) such a press never gets a pin write later; and (d)
\* getStatus reports mode "hardware" with switchCount 0 and bulbCount 0.
C36_PressAfterShutdown ==
    /\ [][(/\ run' = run
           /\ Len(presses') = Len(presses) + 1
           /\ closed /\ gpioAvailable
           /\ ~InvalidSwitchIndex(CalledPress.idx))
          => (/\ CalledPress.bpc = "done"
              /\ CalledPress.bres = "notInit"
              /\ CalledPress.handle = Undefined
              /\ CalledPress.steps = <<>>
              /\ CalledPress.npc = "lookup"
              /\ CalledPress.lookups = 1
              /\ CalledPress.key = ArrGet(SWITCH_PINS, CalledPress.idx - 1))]_vars
    /\ [][\A p \in DOMAIN presses :
            (/\ run' = run
             /\ presses[p].bres = "notInit"
             /\ presses[p].npc = "lookup"
             /\ presses'[p].npc # "lookup"
             /\ presses'[p].nerr # "db"
             /\ GetUser(users, presses[p].key) # <<>>)
            => (/\ Len(presses'[p].sent) = 1
                /\ presses'[p].sent[1].token =
                      GetUser(users, presses[p].key)[1].accessToken
                /\ presses'[p].npc = "send")]_vars
    /\ [](\A p \in DOMAIN presses :
            presses[p].bres = "notInit" => presses[p].steps = <<>>)
    /\ []((closed /\ gpioAvailable)
            => (/\ getStatus.mode = "hardware"
                /\ getStatus.switchCount = 0
                /\ getStatus.bulbCount = 0))

\* C36 witness: hardware mode after shutdown, a press of a valid switch made
\* after it has returned "Bulb not initialized" for its bulb leg and the
\* backend's answer for its notification leg, with one event sent and no step.
C36_Witness ==
    /\ closed
    /\ gpioAvailable
    /\ getStatus.mode = "hardware"
    /\ getStatus.bulbCount = 0
    /\ \E p \in DOMAIN presses :
          /\ presses[p].bres = "notInit"
          /\ presses[p].steps = <<>>
          /\ Len(presses[p].sent) = 1
          /\ presses[p].out = "returned"
          /\ presses[p].ret = <<[turnOnBulb |-> "notInit", sendApiRequest |-> "data"]>>

====
